---- MODULE Spec2Model ----
(***************************************************************************)
(* Command builders of the wm8731 codec driver.                            *)
(*                                                                         *)
(* A builder is a 16 bit value (7 bit register address, 9 bit payload)     *)
(* with a phantom type tag.  A chain starts at a register constructor,     *)
(* applies field writers, each consuming the builder and returning a new   *)
(* one, and ends with into_command().  What the Rust type checker accepts  *)
(* is modelled by guards on the tag: an operation "is offered" in a state  *)
(* exactly when an impl block of the source provides the method for the    *)
(* builder's type.                                                         *)
(***************************************************************************)
EXTENDS Integers, Sequences, FiniteSets, TLC

VARIABLES
    builder,   \* the constructor function the chain started from
    data,      \* the builder's `data: u16`
    t,         \* the builder's PhantomData type parameter, a tuple of marker names
    cmd,       \* <<>> or <<Command.data>>: the command returned by into_command()
    written,   \* history: some field writer has been applied
    wrote,     \* history: the writers of USB/NORMAL, BOSR, SR and SampleRate applied so far
    last,      \* history: the last call of one of those writers [name, w, v]
    wide,      \* history: the last raw bits(value) call got a value wider than its field
    out,       \* <<>> or <<type, value>>: what the frame of the command was converted into
    interface, \* <<>> or <<kind, address, failing operations>>: the serial interface the driver owns
    wire,      \* the operations the interface has done on its bus and pin, oldest first
    calls,     \* history: the values of the commands given to Wm8731::send, oldest first
    kept       \* <<>> or the copy of the builder the program retained

vars ==
    <<builder, data, t, cmd, written, wrote, last, wide, out, interface, wire, calls, kept>>

\* The driver and what it has sent.
driver == <<interface, wire, calls>>

----------------------------------------------------------------------------
(* Bounds of the model.                                                    *)

\* Values 0..MaxLowValue and 255-MaxLowValue..255 are among the u8 inputs tried.
MaxLowValue == 3

\* The u8 inputs given to the raw `bits(value: u8)` writers: small values, values
\* with every high bit set, and each run of low ones.
Values ==
    (0..MaxLowValue) \cup {255 - x : x \in 0..MaxLowValue} \cup {2^k - 1 : k \in 1..8}

----------------------------------------------------------------------------
(* u16 arithmetic of the source: `&`, `|`, `!` and `<<` on 16 bit words.   *)

RECURSIVE BitAndN(_, _, _)
BitAndN(a, b, n) ==
    IF n = 0 \/ a = 0 \/ b = 0 THEN 0
    ELSE (a % 2) * (b % 2) + 2 * BitAndN(a \div 2, b \div 2, n - 1)

\* The bitwise and of two 4 bit digits, tabulated once.
NibbleAnd == [a \in 0..15 |-> [b \in 0..15 |-> BitAndN(a, b, 4)]]

u16_and(a, b) ==
    LET digit(x, i) == (x \div 16^i) % 16
    IN  NibbleAnd[digit(a, 0)][digit(b, 0)]
        + 16 * NibbleAnd[digit(a, 1)][digit(b, 1)]
        + 256 * NibbleAnd[digit(a, 2)][digit(b, 2)]
        + 4096 * NibbleAnd[digit(a, 3)][digit(b, 3)]
u16_or(a, b) == a + b - u16_and(a, b)
u16_not(a) == (2^16 - 1) - a
u16_shl(a, n) == (a * 2^n) % 2^16

----------------------------------------------------------------------------
(* The field writer templates of macros.rs.                                *)

\* Bug: the shifted value is not masked to the field.
impl_bits_unmasked(d, value, lenght, shift) ==
    LET mask == u16_shl(u16_not(u16_shl(u16_not(0), lenght)), shift)
    IN  u16_or(u16_and(d, u16_not(mask)), u16_shl(value, shift))

\* Bug: the old content of the field is not cleared.
impl_bits_uncleared(d, value, lenght, shift) ==
    LET mask == u16_shl(u16_not(u16_shl(u16_not(0), lenght)), shift)
    IN  u16_or(d, u16_and(u16_shl(value, shift), mask))

impl_bits(d, value, lenght, shift) ==
    LET mask == u16_shl(u16_not(u16_shl(u16_not(0), lenght)), shift)
    IN  u16_or(u16_and(d, u16_not(mask)), u16_and(u16_shl(value, shift), mask))

impl_bit(d, value, pos) ==
    u16_or(u16_and(d, u16_not(u16_shl(1, pos))), u16_shl(value, pos))

\* Bug: the bit is inverted instead of set.
impl_set_bit_inverts(d, pos) == u16_or(d, u16_shl(1, pos)) - u16_and(d, u16_shl(1, pos))

impl_set_bit(d, pos) == u16_or(d, u16_shl(1, pos))

\* Bug: enable clears the bit, as disable does.
impl_enable_clears(d, pos) == u16_and(d, u16_not(u16_shl(1, pos)))

impl_enable(d, pos) == u16_or(d, u16_shl(1, pos))

\* Bug: the bit mask is not inverted.
impl_clear_bit_uninverted(d, pos) == u16_and(d, u16_shl(1, pos))

impl_clear_bit(d, pos) == u16_and(d, u16_not(u16_shl(1, pos)))

impl_disable(d, pos) == u16_and(d, u16_not(u16_shl(1, pos)))

\* The methods impl_bitsetters! gives to a writer, each with its template.
impl_bitsetters ==
    { <<"bit", "impl_bit">>, <<"set_bit", "impl_set_bit">>,
      <<"clear_bit", "impl_clear_bit">>, <<"enable", "impl_enable">>,
      <<"disable", "impl_disable">> }

\* A writer struct: its name, its field (lenght, shift), the methods built from
\* the one bit templates, whether impl_bits! gives it `bits`, the named methods
\* that call `bits` with a fixed value, and the arms of `variant`.
Writer(name, lenght, shift, methods, bits, named, variant) ==
    [ name |-> name, lenght |-> lenght, shift |-> shift, methods |-> methods,
      bits |-> bits, named |-> named, variant |-> variant ]

impl_toggle_writer(name, pos) ==
    Writer(name, 1, pos, impl_bitsetters, FALSE, {}, {})

----------------------------------------------------------------------------
(* The register builders: constructor values and field writers.            *)

\* line_in.rs
LeftLineIn_new == [data |-> \b010010111, t |-> <<"Left">>]

\* Bug: the right channel starts with the default payload of the headphone out.
RightLineIn_new_payload == [data |-> u16_or(u16_shl(1, 9), \b001111001), t |-> <<"Right">>]

RightLineIn_new == [data |-> u16_or(u16_shl(1, 9), \b010010111), t |-> <<"Right">>]

LineIn_writers ==
    { Writer("Invol", 5, 0, {}, TRUE, {}, {}),
      impl_toggle_writer("Inmute", 7),
      impl_toggle_writer("Inboth", 8) }

\* headphone_out.rs
LeftHeadphoneOut_new == [data |-> u16_or(u16_shl(2, 9), \b001111001), t |-> <<"Left">>]

RightHeadphoneOut_new == [data |-> u16_or(u16_shl(3, 9), \b001111001), t |-> <<"Right">>]

HeadphoneOut_writers ==
    { Writer("Hpvol", 7, 0, {}, TRUE, {}, {}),
      impl_toggle_writer("Zcen", 7),
      impl_toggle_writer("Hpboth", 8) }

\* hp_vol_db.rs: the steps of the headphone volume, each named by the field
\* code the lookup table gives it.
HpVoldB == 0..127

\* HpVoldB::into_raw: the u8 field code of a step
HpVoldB_into_raw(volume) == volume % 2^8

\* Hpvol::db
Hpvol_db(d, volume) ==
    LET mask == u16_not(u16_shl(u16_not(0), 7))
    IN  u16_or(u16_and(d, u16_not(mask)), HpVoldB_into_raw(volume))

\* analogue_audio_path.rs
AnalogueAudioPath_new == [data |-> u16_or(u16_shl(\b100, 9), \b1010), t |-> <<>>]

AnalogueAudioPath_writers ==
    { impl_toggle_writer("Micboost", 0),
      impl_toggle_writer("Mutemic", 1),
      impl_toggle_writer("Bypass", 3),
      impl_toggle_writer("Sidetone", 5),
      Writer("Insel", 1, 2,
             { <<"bit", "impl_bit">>, <<"set_bit", "impl_set_bit">>,
               <<"clear_bit", "impl_clear_bit">>, <<"microphone", "impl_set_bit">>,
               <<"line", "impl_clear_bit">> },
             FALSE, {},
             { <<"Microphone", "microphone", 0>>, <<"Line", "line", 0>> }),
      Writer("Dacsel", 1, 2,
             { <<"bit", "impl_bit">>, <<"set_bit", "impl_set_bit">>,
               <<"clear_bit", "impl_clear_bit">>, <<"select", "impl_set_bit">>,
               <<"deselect", "impl_clear_bit">> },
             FALSE, {},
             { <<"Deselect", "deselect", 0>>, <<"Select", "select", 0>> }),
      Writer("Sideatt", 2, 6, {}, TRUE, {}, {}) }

\* command/analogue_audio_path.rs
command_AnalogueAudioPath_new == [data |-> u16_or(u16_shl(\b100, 9), \b1010), t |-> <<>>]

command_AnalogueAudioPath_writers ==
    { impl_toggle_writer("Micboost", 0),
      impl_toggle_writer("Mutemic", 1),
      impl_toggle_writer("Bypass", 3),
      impl_toggle_writer("Sidetone", 5),
      Writer("Insel", 1, 2,
             { <<"bit", "impl_bit">>, <<"set_bit", "impl_set_bit">>,
               <<"clear_bit", "impl_clear_bit">>, <<"microphone", "impl_set_bit">>,
               <<"line", "impl_clear_bit">> },
             FALSE, {},
             { <<"Microphone", "microphone", 0>>, <<"Line", "line", 0>> }),
      Writer("Dacsel", 1, 4,
             { <<"bit", "impl_bit">>, <<"set_bit", "impl_set_bit">>,
               <<"clear_bit", "impl_clear_bit">>, <<"select", "impl_set_bit">>,
               <<"deselect", "impl_clear_bit">> },
             FALSE, {},
             { <<"Deselect", "deselect", 0>>, <<"Select", "select", 0>> }),
      Writer("Sideatt", 2, 6, {}, TRUE, {}, {}) }

\* command/side_att_db.rs: the steps of the side tone attenuation, each named by
\* the field code the lookup table gives it.
SideAttdB == 0..3

\* SideAttdB::into_raw: the u8 field code of a step
SideAttdB_into_raw(volume) == volume % 2^8

\* Sideatt::db: the raw code is or-ed into the word where it is, not at bit 6.
Sideatt_db(d, volume) ==
    LET mask == u16_shl(u16_not(u16_shl(u16_not(0), 2)), 6)
    IN  u16_or(u16_and(d, u16_not(mask)), SideAttdB_into_raw(volume))

\* digital_audio_path.rs
DigitalAudioPath_new == [data |-> u16_or(u16_shl(\b101, 9), \b1000), t |-> <<>>]

DigitalAudioPath_writers ==
    { impl_toggle_writer("Adchpd", 0),
      impl_toggle_writer("Dacmu", 3),
      Writer("Deemp", 2, 1, {}, TRUE,
             { <<"disable", \b00>>, <<"f32k", \b01>>, <<"f44k1", \b10>>, <<"f48k", \b11>> },
             { <<"Disable", "bits", \b00>>, <<"F32k", "bits", \b01>>,
               <<"F44k1", "bits", \b10>>, <<"F48k", "bits", \b11>> }),
      Writer("Hpor", 1, 4,
             { <<"bit", "impl_bit">>, <<"clear_bit", "impl_clear_bit">>,
               <<"set_bit", "impl_set_bit">>, <<"clear_offset", "impl_clear_bit">>,
               <<"store_offset", "impl_set_bit">> },
             FALSE, {},
             { <<"ClearOffset", "clear_offset", 0>>, <<"StoreOffset", "store_offset", 0>> }) }

\* power_down.rs
\* Bug: the address is shifted by 8 instead of 9.
PowerDown_new_shift8 == [data |-> u16_or(u16_shl(\b110, 8), \b10011111), t |-> <<>>]

PowerDown_new == [data |-> u16_or(u16_shl(\b110, 9), \b10011111), t |-> <<>>]

PowerDown_writers ==
    { impl_toggle_writer("Lineinpd", 0), impl_toggle_writer("Micpd", 1),
      impl_toggle_writer("Adcpd", 2), impl_toggle_writer("Dacpd", 3),
      impl_toggle_writer("Outpd", 4), impl_toggle_writer("Oscpd", 5),
      impl_toggle_writer("Clkoutpd", 6), impl_toggle_writer("Poweroff", 7) }

\* digital_audio_interface.rs
DigitalAudioInterface_new == [data |-> u16_or(u16_shl(\b111, 9), \b1010), t |-> <<>>]

DigitalAudioInterface_writers ==
    { Writer("Format", 2, 0, {}, TRUE,
             { <<"dsp", \b11>>, <<"i2s", \b10>>, <<"left_justified", \b01>>,
               <<"right_justified", \b00>> },
             { <<"Dsp", "bits", \b11>>, <<"I2s", "bits", \b10>>,
               <<"LeftJustified", "bits", \b01>>, <<"RigthJustified", "bits", \b00>> }),
      Writer("Iwl", 2, 2, {}, TRUE,
             { <<"iwl_32_bits", \b11>>, <<"iwl_24_bits", \b10>>, <<"iwl_20_bits", \b01>>,
               <<"iwl_16_bits", \b00>> },
             { <<"Iwl32bits", "bits", \b11>>, <<"Iwl24bits", "bits", \b10>>,
               <<"Iwl20bits", "bits", \b01>>, <<"Iwl16bits", "bits", \b00>> }),
      Writer("Lrp", 1, 4,
             { <<"bit", "impl_bit">>, <<"clear_bit", "impl_clear_bit">>,
               <<"set_bit", "impl_set_bit">> },
             FALSE, {}, {}),
      impl_toggle_writer("Lrswap", 5),
      Writer("Ms", 1, 6,
             { <<"bit", "impl_bit">>, <<"clear_bit", "impl_clear_bit">>,
               <<"set_bit", "impl_set_bit">>, <<"slave", "impl_clear_bit">>,
               <<"master", "impl_set_bit">> },
             FALSE, {},
             { <<"Slave", "slave", 0>>, <<"Master", "master", 0>> }),
      impl_toggle_writer("Bclkinv", 7) }

\* command/active_control.rs
ActiveControl_new == [data |-> u16_shl(\b1001, 9), t |-> <<>>]

ActiveControl_active(d) == u16_or(d, 1)

ActiveControl_inactive(d) == u16_and(d, u16_not(1))

\* lib.rs, mod reset
Reset_new == [data |-> u16_or(u16_shl(\b110, 9), \b10011111), t |-> <<>>]

\* lib.rs: the frame of a command and what a frame converts into
Frame_from(command) == [data |-> command.data]

\* Bug: the low byte comes first.
to_le_bytes(x) == << x % 2^8, (x \div 2^8) % 2^8 >>

\* u16::to_be_bytes
to_be_bytes(x) == << (x \div 2^8) % 2^8, x % 2^8 >>

\* From<Frame> for [u8; 2], for [u16; 1] and for u16
Frame_into(type, frame) ==
    CASE type = "[u8; 2]" -> to_be_bytes(frame.data)
      [] type = "[u16; 1]" -> << frame.data >>
      [] type = "u16" -> frame.data

----------------------------------------------------------------------------
(* sampling.rs: the sampling builder whose mode and BOSR are written once. *)

\* Markers that implement the trait IsSet, and the master clock markers.
IsSet == {"Normal", "Usb", "BosrIsSet", "BosrIsClear", "SrIsSet"}

Mclk == {"Mclk12M288", "Mclk18M432", "Mclk11M2896", "Mclk16M9344", "Mclk12M"}

Sampling_new ==
    [data |-> u16_or(u16_shl(\b1000, 9), \b00000000), t |-> <<"Unset", "Unset", "Unset">>]

sampling_command_builder_mclk(MCLK) ==
    [data |-> u16_shl(\b1000, 9), t |-> <<MCLK, "Unset">>]

\* Bug: the writer of CLKIDIV2 is made at position 5, inside the SR field.
Sampling_writers_in_sr ==
    { impl_toggle_writer("Clkidiv2", 5), impl_toggle_writer("Clkodiv2", 7) }

Sampling_writers ==
    { impl_toggle_writer("Clkidiv2", 6), impl_toggle_writer("Clkodiv2", 7) }

\* The impl blocks that offer each method, as predicates on the type parameter.
Sampling_sample_rate(tt) == Len(tt) = 2 /\ tt[1] \in Mclk

Sampling_into_command(tt) ==
    \/ Len(tt) = 3 /\ tt[3] = "SrIsSet"
    \/ Len(tt) = 2 /\ tt[2] = "SrIsSet"

\* Bug: usb_normal() is also given to a builder whose mode is set.
Sampling_usb_normal_again(tt) == Len(tt) = 3 /\ tt[3] = "Unset"

Sampling_usb_normal(tt) == Len(tt) = 3 /\ tt[1] = "Unset" /\ tt[3] = "Unset"

\* Bug: bosr() is also given to a builder whose SR is set.
Sampling_bosr_after_sr(tt) == Len(tt) = 3 /\ tt[2] = "Unset"

\* Bug: bosr() is given only to a builder whose mode is not written yet.
Sampling_bosr_before_mode(tt) ==
    Len(tt) = 3 /\ tt[1] = "Unset" /\ tt[2] = "Unset" /\ tt[3] = "Unset"

Sampling_bosr(tt) == Len(tt) = 3 /\ tt[2] = "Unset" /\ tt[3] = "Unset"

\* Bug: in USB mode sr() does not ask for BOSR to be set.
Sampling_sr_any_bosr(tt) == Len(tt) = 3 /\ tt[1] \in {"Usb", "Normal"}

Sampling_sr(tt) ==
    /\ Len(tt) = 3
    /\ \/ tt[1] = "Usb" /\ tt[2] \in IsSet
       \/ tt[1] = "Normal"

\* UsbNormal::{clear_bit, set_bit, normal, usb}
UsbNormal(s, m) ==
    IF m \in {"clear_bit", "normal"}
    THEN [data |-> u16_and(s.data, u16_not(u16_shl(1, 0))),
          t |-> <<"Normal", s.t[2], s.t[3]>>]
    ELSE [data |-> u16_or(s.data, u16_shl(1, 0)),
          t |-> <<"Usb", s.t[2], s.t[3]>>]

\* Bosr::{clear_bit, set_bit}
Bosr(s, m) ==
    IF m = "clear_bit"
    THEN [data |-> u16_and(s.data, u16_not(u16_shl(1, 1))),
          t |-> <<s.t[1], "BosrIsClear", s.t[3]>>]
    ELSE [data |-> u16_or(s.data, u16_shl(1, 1)),
          t |-> <<s.t[1], "BosrIsSet", s.t[3]>>]

\* Bug: the value is written to bits 3..0, over USB/NORMAL and BOSR.
Sr_bits_unshifted(s, value) ==
    LET mask == u16_not(u16_shl(u16_not(0), 4))
    IN  [data |-> u16_or(u16_and(s.data, u16_not(mask)), u16_and(value, mask)),
         t |-> <<s.t[1], s.t[2], "SrIsSet">>]

\* unsafe Sr::bits
Sr_bits(s, value) ==
    LET mask == u16_shl(u16_not(u16_shl(u16_not(0), 4)), 2)
    IN  [data |-> u16_or(u16_and(s.data, u16_not(mask)),
                         u16_and(u16_shl(value, 2), mask)),
         t |-> <<s.t[1], s.t[2], "SrIsSet">>]

\* Bug: Normal mode is given only the methods of USB mode with BOSR clear.
Sr_named_normal_as_usb(tt) ==
    IF tt[1] = "Normal" \/ (tt[1] = "Usb" /\ tt[2] = "BosrIsClear") THEN
        { <<"sr_0b0000", \b0000>>, <<"sr_0b0001", \b0001>>, <<"sr_0b0010", \b0010>>,
          <<"sr_0b0011", \b0011>>, <<"sr_0b0110", \b0110>>, <<"sr_0b0111", \b0111>> }
    ELSE IF tt[1] = "Usb" /\ tt[2] = "BosrIsSet" THEN
        { <<"sr_0b1000", \b1000>>, <<"sr_0b1001", \b1001>>, <<"sr_0b1010", \b1010>>,
          <<"sr_0b1011", \b1011>>, <<"sr_0b1111", \b1111>> }
    ELSE {}

\* The sr_0bXXXX methods offered for a type parameter, each with the value it
\* passes to Sr::bits.
Sr_named(tt) ==
    IF tt[1] = "Normal" THEN
        { <<"sr_0b0000", \b0000>>, <<"sr_0b0001", \b0001>>, <<"sr_0b0010", \b0010>>,
          <<"sr_0b0011", \b0011>>, <<"sr_0b0110", \b0110>>, <<"sr_0b0111", \b0111>>,
          <<"sr_0b1000", \b1000>>, <<"sr_0b1001", \b1001>>, <<"sr_0b1010", \b1010>>,
          <<"sr_0b1011", \b1011>>, <<"sr_0b1111", \b1111>> }
    ELSE IF tt[1] = "Usb" /\ tt[2] = "BosrIsClear" THEN
        { <<"sr_0b0000", \b0000>>, <<"sr_0b0001", \b0001>>, <<"sr_0b0010", \b0010>>,
          <<"sr_0b0011", \b0011>>, <<"sr_0b0110", \b0110>>, <<"sr_0b0111", \b0111>> }
    ELSE IF tt[1] = "Usb" /\ tt[2] = "BosrIsSet" THEN
        { <<"sr_0b1000", \b1000>>, <<"sr_0b1001", \b1001>>, <<"sr_0b1010", \b1010>>,
          <<"sr_0b1011", \b1011>>, <<"sr_0b1111", \b1111>> }
    ELSE {}

\* SampleRate::bits, the private writer behind the named sample rates
SampleRate_bits(s, value) ==
    LET mask == u16_not(u16_shl(u16_not(0), 6))
    IN  [data |-> u16_or(u16_and(s.data, u16_not(mask)),
                         u16_and(u16_shl(value, 2), mask)),
         t |-> <<s.t[1], "SrIsSet">>]

\* Bug: every master clock is given the named sample rates of the 12 MHz clock.
SampleRate_named_any_clock(MCLK) ==
    IF MCLK \in Mclk THEN
        { <<"adc48k_dac48k", \b000001>>, <<"adc44k1_dac44k1", \b100011>>,
          <<"adc48k_dac8k", \b000101>>, <<"adc44k1_dac8k", \b100111>>,
          <<"adc8k_dac48k", \b001001>>, <<"adc8k_dac44k1", \b101011>>,
          <<"adc8k_dac8k", \b001101>>, <<"adc8k_dac8k_bis", \b101111>>,
          <<"adc32k_dac32k", \b011001>>, <<"adc96k_dac96k", \b011101>>,
          <<"adc88k2_dac88k2", \b111111>> }
    ELSE {}

\* The named sample rates offered for a master clock, each with the value it
\* passes to SampleRate::bits.
SampleRate_named(MCLK) ==
    IF MCLK = "Mclk12M288" THEN
        { <<"adc48k_dac48k", \b000000>>, <<"adc48k_dac8k", \b000100>>,
          <<"adc8k_dac48k", \b001000>>, <<"adc8k_dac8k", \b001100>>,
          <<"adc32k_dac32k", \b011000>>, <<"adc96k_dac96k", \b011100>> }
    ELSE IF MCLK = "Mclk18M432" THEN
        { <<"adc48k_dac48k", \b000010>>, <<"adc48k_dac8k", \b000110>>,
          <<"adc8k_dac48k", \b001010>>, <<"adc8k_dac8k", \b001110>>,
          <<"adc32k_dac32k", \b011010>>, <<"adc96k_dac96k", \b011110>> }
    ELSE IF MCLK = "Mclk11M2896" THEN
        { <<"adc44k1_dac44k1", \b100000>>, <<"adc44k1_dac8k", \b100100>>,
          <<"adc8k_dac44k1", \b101000>>, <<"adc8k_dac8k", \b101100>>,
          <<"adc88k2_dac88k2", \b111100>> }
    ELSE IF MCLK = "Mclk16M9344" THEN
        { <<"adc44k1_dac44k1", \b100010>>, <<"adc44k1_dac8k", \b100110>>,
          <<"adc8k_dac44k1", \b101010>>, <<"adc8k_dac8k", \b101110>>,
          <<"adc88k2_dac88k2", \b111110>> }
    ELSE IF MCLK = "Mclk12M" THEN
        { <<"adc48k_dac48k", \b000001>>, <<"adc44k1_dac44k1", \b100011>>,
          <<"adc48k_dac8k", \b000101>>, <<"adc44k1_dac8k", \b100111>>,
          <<"adc8k_dac48k", \b001001>>, <<"adc8k_dac44k1", \b101011>>,
          <<"adc8k_dac8k", \b001101>>, <<"adc8k_dac8k_bis", \b101111>>,
          <<"adc32k_dac32k", \b011001>>, <<"adc96k_dac96k", \b011101>>,
          <<"adc88k2_dac88k2", \b111111>> }
    ELSE {}

----------------------------------------------------------------------------
(* command/sampling.rs: the sampling builder whose mode and BOSR writes    *)
(* invalidate SR.                                                          *)

command_Mclk == {"Mclk12M288", "Mclk18M432", "Mclk11M2896", "Mclk16M9344", "Mclk12M"}

command_Sampling_new ==
    [data |-> u16_or(u16_shl(\b1000, 9), \b00000000),
     t |-> <<"Normal", "BosrClear", "SrValid">>]

\* Bug: the builder with a master clock starts with a valid SR.
command_sampling_with_mclk_valid(MCLK) ==
    [data |-> u16_shl(\b1000, 9), t |-> <<MCLK, "SrValid">>]

command_sampling_with_mclk(MCLK) ==
    [data |-> u16_shl(\b1000, 9), t |-> <<MCLK, "SrInvalid">>]

command_Sampling_writers ==
    { impl_toggle_writer("Clkidiv2", 6), impl_toggle_writer("Clkodiv2", 7) }

command_Sampling_sample_rate(tt) == Len(tt) = 2 /\ tt[1] \in command_Mclk

command_Sampling_into_command(tt) ==
    \/ Len(tt) = 2 /\ tt[2] = "SrValid"
    \/ Len(tt) = 3 /\ tt[3] = "SrValid"

\* usb_normal(), bosr() and sr() come from one impl block
command_Sampling_raw(tt) == Len(tt) = 3

\* Bug: a write of USB/NORMAL keeps the validity of SR.
command_UsbNormal_keeps_sr(s, m) ==
    IF m \in {"clear_bit", "normal"}
    THEN [data |-> u16_and(s.data, u16_not(u16_shl(1, 0))),
          t |-> <<"Normal", s.t[2], s.t[3]>>]
    ELSE [data |-> u16_or(s.data, u16_shl(1, 0)),
          t |-> <<"Usb", s.t[2], s.t[3]>>]

command_UsbNormal(s, m) ==
    IF m \in {"clear_bit", "normal"}
    THEN [data |-> u16_and(s.data, u16_not(u16_shl(1, 0))),
          t |-> <<"Normal", s.t[2], "SrInvalid">>]
    ELSE [data |-> u16_or(s.data, u16_shl(1, 0)),
          t |-> <<"Usb", s.t[2], "SrInvalid">>]

\* Bug: a write of BOSR keeps the validity of SR.
command_Bosr_keeps_sr(s, m) ==
    IF m = "clear_bit"
    THEN [data |-> u16_and(s.data, u16_not(u16_shl(1, 1))),
          t |-> <<s.t[1], "BosrClear", s.t[3]>>]
    ELSE [data |-> u16_or(s.data, u16_shl(1, 1)),
          t |-> <<s.t[1], "BosrSet", s.t[3]>>]

command_Bosr(s, m) ==
    IF m = "clear_bit"
    THEN [data |-> u16_and(s.data, u16_not(u16_shl(1, 1))),
          t |-> <<s.t[1], "BosrClear", "SrInvalid">>]
    ELSE [data |-> u16_or(s.data, u16_shl(1, 1)),
          t |-> <<s.t[1], "BosrSet", "SrInvalid">>]

\* Bug: a raw write of SR leaves the validity of SR as it was.
command_Sr_bits_keeps_validity(s, value) ==
    LET mask == u16_shl(u16_not(u16_shl(u16_not(0), 4)), 2)
    IN  [data |-> u16_or(u16_and(s.data, u16_not(mask)),
                         u16_and(u16_shl(value, 2), mask)),
         t |-> s.t]

command_Sr_bits(s, value) ==
    LET mask == u16_shl(u16_not(u16_shl(u16_not(0), 4)), 2)
    IN  [data |-> u16_or(u16_and(s.data, u16_not(mask)),
                         u16_and(u16_shl(value, 2), mask)),
         t |-> <<s.t[1], s.t[2], "SrValid">>]

\* Bug: USB mode is given the methods of BOSR clear whatever BOSR is.
command_Sr_named_ignores_bosr(tt) ==
    IF tt[1] = "Normal" THEN
        { <<"sr_0b0000", \b0000>>, <<"sr_0b0001", \b0001>>, <<"sr_0b0010", \b0010>>,
          <<"sr_0b0011", \b0011>>, <<"sr_0b0110", \b0110>>, <<"sr_0b0111", \b0111>>,
          <<"sr_0b1000", \b1000>>, <<"sr_0b1001", \b1001>>, <<"sr_0b1010", \b1010>>,
          <<"sr_0b1011", \b1011>>, <<"sr_0b1111", \b1111>> }
    ELSE IF tt[1] = "Usb" THEN
        { <<"sr_0b0000", \b0000>>, <<"sr_0b0001", \b0001>>, <<"sr_0b0010", \b0010>>,
          <<"sr_0b0011", \b0011>>, <<"sr_0b0110", \b0110>>, <<"sr_0b0111", \b0111>> }
    ELSE {}

command_Sr_named(tt) ==
    IF tt[1] = "Normal" THEN
        { <<"sr_0b0000", \b0000>>, <<"sr_0b0001", \b0001>>, <<"sr_0b0010", \b0010>>,
          <<"sr_0b0011", \b0011>>, <<"sr_0b0110", \b0110>>, <<"sr_0b0111", \b0111>>,
          <<"sr_0b1000", \b1000>>, <<"sr_0b1001", \b1001>>, <<"sr_0b1010", \b1010>>,
          <<"sr_0b1011", \b1011>>, <<"sr_0b1111", \b1111>> }
    ELSE IF tt[1] = "Usb" /\ tt[2] = "BosrClear" THEN
        { <<"sr_0b0000", \b0000>>, <<"sr_0b0001", \b0001>>, <<"sr_0b0010", \b0010>>,
          <<"sr_0b0011", \b0011>>, <<"sr_0b0110", \b0110>>, <<"sr_0b0111", \b0111>> }
    ELSE IF tt[1] = "Usb" /\ tt[2] = "BosrSet" THEN
        { <<"sr_0b1000", \b1000>>, <<"sr_0b1001", \b1001>>, <<"sr_0b1010", \b1010>>,
          <<"sr_0b1011", \b1011>>, <<"sr_0b1111", \b1111>> }
    ELSE {}

command_SampleRate_bits(s, value) ==
    LET mask == u16_not(u16_shl(u16_not(0), 6))
    IN  [data |-> u16_or(u16_and(s.data, u16_not(mask)),
                         u16_and(u16_shl(value, 2), mask)),
         t |-> <<s.t[1], "SrValid">>]

command_SampleRate_named(MCLK) ==
    IF MCLK = "Mclk12M288" THEN
        { <<"adc48k_dac48k", \b000000>>, <<"adc48k_dac8k", \b000100>>,
          <<"adc8k_dac48k", \b001000>>, <<"adc8k_dac8k", \b001100>>,
          <<"adc32k_dac32k", \b011000>>, <<"adc96k_dac96k", \b011100>> }
    ELSE IF MCLK = "Mclk18M432" THEN
        { <<"adc48k_dac48k", \b000010>>, <<"adc48k_dac8k", \b000110>>,
          <<"adc8k_dac48k", \b001010>>, <<"adc8k_dac8k", \b001110>>,
          <<"adc32k_dac32k", \b011010>>, <<"adc96k_dac96k", \b011110>> }
    ELSE IF MCLK = "Mclk11M2896" THEN
        { <<"adc44k1_dac44k1", \b100000>>, <<"adc44k1_dac8k", \b100100>>,
          <<"adc8k_dac44k1", \b101000>>, <<"adc8k_dac8k", \b101100>>,
          <<"adc88k2_dac88k2", \b111100>> }
    ELSE IF MCLK = "Mclk16M9344" THEN
        { <<"adc44k1_dac44k1", \b100010>>, <<"adc44k1_dac8k", \b100110>>,
          <<"adc8k_dac44k1", \b101010>>, <<"adc8k_dac8k", \b101110>>,
          <<"adc88k2_dac88k2", \b111110>> }
    ELSE IF MCLK = "Mclk12M" THEN
        { <<"adc48k_dac48k", \b000001>>, <<"adc44k1_dac44k1", \b100011>>,
          <<"adc48k_dac8k", \b000101>>, <<"adc44k1_dac8k", \b100111>>,
          <<"adc8k_dac48k", \b001001>>, <<"adc8k_dac44k1", \b101011>>,
          <<"adc8k_dac8k", \b001101>>, <<"adc8k_dac8k_bis", \b101111>>,
          <<"adc32k_dac32k", \b011001>>, <<"adc96k_dac96k", \b011101>>,
          <<"adc88k2_dac88k2", \b111111>> }
    ELSE {}

----------------------------------------------------------------------------
(* macros.rs, mod tests: the command the templates are tested on.          *)

tests_Cmd_data == {0, \b111}

tests_Cmd_writers ==
    { Writer("BitsW", 5, 2, {}, TRUE, {}, {}), impl_toggle_writer("BitW", 1) }

----------------------------------------------------------------------------
(* The chains of builder calls.                                            *)

\* The constructor functions.
Builders ==
    { "left_line_in", "right_line_in", "left_headphone_out", "right_headphone_out",
      "analogue_audio_path", "command::analogue_audio_path", "digital_audio_path",
      "power_down", "digital_audio_interface", "active_control", "reset",
      "sampling_command_builder", "sampling_command_builder_mclk",
      "command::sampling", "command::sampling_with_mclk", "tests::Cmd" }

\* The builder a constructor function returns; MCLK and d are the arguments of
\* those that take one.
New(b, MCLK, d) ==
    CASE b = "left_line_in" -> LeftLineIn_new
      [] b = "right_line_in" -> RightLineIn_new
      [] b = "left_headphone_out" -> LeftHeadphoneOut_new
      [] b = "right_headphone_out" -> RightHeadphoneOut_new
      [] b = "analogue_audio_path" -> AnalogueAudioPath_new
      [] b = "command::analogue_audio_path" -> command_AnalogueAudioPath_new
      [] b = "digital_audio_path" -> DigitalAudioPath_new
      [] b = "power_down" -> PowerDown_new
      [] b = "digital_audio_interface" -> DigitalAudioInterface_new
      [] b = "active_control" -> ActiveControl_new
      [] b = "reset" -> Reset_new
      [] b = "sampling_command_builder" -> Sampling_new
      [] b = "sampling_command_builder_mclk" -> sampling_command_builder_mclk(MCLK)
      [] b = "command::sampling" -> command_Sampling_new
      [] b = "command::sampling_with_mclk" -> command_sampling_with_mclk(MCLK)
      [] b = "tests::Cmd" -> [data |-> d, t |-> <<>>]

\* The writer structs a builder gives access to through its accessor methods.
Writers(b) ==
    CASE b \in {"left_line_in", "right_line_in"} -> LineIn_writers
      [] b \in {"left_headphone_out", "right_headphone_out"} -> HeadphoneOut_writers
      [] b = "analogue_audio_path" -> AnalogueAudioPath_writers
      [] b = "command::analogue_audio_path" -> command_AnalogueAudioPath_writers
      [] b = "digital_audio_path" -> DigitalAudioPath_writers
      [] b = "power_down" -> PowerDown_writers
      [] b = "digital_audio_interface" -> DigitalAudioInterface_writers
      [] b \in {"sampling_command_builder", "sampling_command_builder_mclk"} ->
            Sampling_writers
      [] b \in {"command::sampling", "command::sampling_with_mclk"} ->
            command_Sampling_writers
      [] b = "tests::Cmd" -> tests_Cmd_writers
      [] OTHER -> {}

InSampling == builder \in {"sampling_command_builder", "sampling_command_builder_mclk"}

InCommandSampling == builder \in {"command::sampling", "command::sampling_with_mclk"}

\* into_command() is a method of the builder's type.
IntoCommandOffered ==
    CASE InSampling -> Sampling_into_command(t)
      [] InCommandSampling -> command_Sampling_into_command(t)
      [] builder = "tests::Cmd" -> FALSE
      [] OTHER -> TRUE

UsbNormalOffered ==
    \/ InSampling /\ Sampling_usb_normal(t)
    \/ InCommandSampling /\ command_Sampling_raw(t)

BosrOffered ==
    \/ InSampling /\ Sampling_bosr(t)
    \/ InCommandSampling /\ command_Sampling_raw(t)

SrOffered ==
    \/ InSampling /\ Sampling_sr(t)
    \/ InCommandSampling /\ command_Sampling_raw(t)

SampleRateOffered ==
    \/ InSampling /\ Sampling_sample_rate(t)
    \/ InCommandSampling /\ command_Sampling_sample_rate(t)

\* No writer of USB/NORMAL, BOSR, SR or SampleRate has been called yet.
NoWrite == [name |-> "new", w |-> "none", v |-> 0]

LastW == last.w

Init ==
    \E b \in Builders, MCLK \in Mclk, d \in tests_Cmd_data :
        /\ builder = b
        /\ data = New(b, MCLK, d).data
        /\ t = New(b, MCLK, d).t
        /\ cmd = <<>>
        /\ written = FALSE
        /\ wrote = {}
        /\ last = NoWrite
        /\ wide = FALSE
        /\ out = <<>>
        /\ interface = <<>>
        /\ wire = <<>>
        /\ calls = <<>>
        /\ kept = <<>>

\* A call of method m of writer w with argument value, for the methods made
\* from the one bit templates.
Method(d, w, m, value) ==
    LET tpl == (CHOOSE p \in w.methods : p[1] = m)[2]
    IN  CASE tpl = "impl_bit" -> impl_bit(d, value, w.shift)
          [] tpl = "impl_set_bit" -> impl_set_bit(d, w.shift)
          [] tpl = "impl_clear_bit" -> impl_clear_bit(d, w.shift)
          [] tpl = "impl_enable" -> impl_enable(d, w.shift)
          [] tpl = "impl_disable" -> impl_disable(d, w.shift)

\* Bug: a field write gives a builder on which no field can be written.
FieldWrite_once(d) ==
    /\ cmd = <<>>
    /\ ~written
    /\ data' = d
    /\ written' = TRUE
    /\ UNCHANGED <<builder, t, cmd, wrote, last, out, kept, driver>>

\* Bug: the writer changes the builder in place, through a reference that the
\* retained copy shares.
FieldWrite_in_place(d) ==
    /\ cmd = <<>>
    /\ data' = d
    /\ written' = TRUE
    /\ kept' = IF kept = <<>> THEN kept ELSE <<[kept[1] EXCEPT !.data = d]>>
    /\ UNCHANGED <<builder, t, cmd, wrote, last, out, driver>>

\* A writer of a field that no other field depends on: the builder keeps its type.
FieldWrite(d) ==
    /\ cmd = <<>>
    /\ data' = d
    /\ written' = TRUE
    /\ UNCHANGED <<builder, t, cmd, wrote, last, out, kept, driver>>

\* 2^lenght, the first value that does not fit a field
Limit(lenght) == 2^lenght

\* w.bits(value)
WriteBits(w, value) ==
    /\ w.bits
    /\ FieldWrite(impl_bits(data, value, w.lenght, w.shift))
    /\ wide' = (value >= Limit(w.lenght))

\* w.bit(value), w.set_bit(), w.clear_bit(), w.enable(), w.disable() and the
\* methods named after a meaning
WriteBit(w, m, value) ==
    /\ \E p \in w.methods : p[1] = m
    /\ m = "bit" \/ value = 0
    /\ FieldWrite(Method(data, w, m, value))
    /\ UNCHANGED wide

\* a method that calls bits with a fixed value
WriteNamed(w, m) ==
    \E p \in w.named :
        /\ p[1] = m
        /\ FieldWrite(impl_bits(data, p[2], w.lenght, w.shift))
        /\ UNCHANGED wide

\* w.variant(value)
WriteVariant(w, arm) ==
    /\ arm \in w.variant
    /\ FieldWrite(IF arm[2] = "bits"
                  THEN impl_bits(data, arm[3], w.lenght, w.shift)
                  ELSE Method(data, w, arm[2], 0))
    /\ UNCHANGED wide

\* The steps tried on w.db, for the writers that have the method: the lowest
\* and the highest steps of the headphone volume, every step of the side tone
\* attenuation.
DbSteps(w) ==
    CASE builder \in {"left_headphone_out", "right_headphone_out"} /\ w.name = "Hpvol" ->
            {volume \in HpVoldB : volume <= MaxLowValue \/ volume >= 127 - MaxLowValue}
      [] builder = "command::analogue_audio_path" /\ w.name = "Sideatt" -> SideAttdB
      [] OTHER -> {}

\* w.db(volume)
WriteDb(w, volume) ==
    /\ volume \in DbSteps(w)
    /\ FieldWrite(IF w.name = "Hpvol" THEN Hpvol_db(data, volume)
                  ELSE Sideatt_db(data, volume))
    /\ UNCHANGED wide

\* ActiveControl::active and ActiveControl::inactive
Active ==
    /\ builder = "active_control"
    /\ FieldWrite(ActiveControl_active(data))
    /\ UNCHANGED wide

Inactive ==
    /\ builder = "active_control"
    /\ FieldWrite(ActiveControl_inactive(data))
    /\ UNCHANGED wide

\* A writer of the sampling builders that changes the type parameter.
SamplingWrite(name, w, v, s) ==
    /\ cmd = <<>>
    /\ data' = s.data
    /\ t' = s.t
    /\ last' = [name |-> name, w |-> w, v |-> v]
    /\ written' = TRUE
    /\ wrote' = wrote \cup {w}
    /\ wide' = IF name = "bits" THEN v >= Limit(4) ELSE wide
    /\ UNCHANGED <<builder, cmd, out, kept, driver>>

Self == [data |-> data, t |-> t]

\* sampling.rs
WriteUsbNormal(m) ==
    /\ InSampling /\ Sampling_usb_normal(t)
    /\ SamplingWrite(m, "UsbNormal", 0, UsbNormal(Self, m))

WriteBosr(m) ==
    /\ InSampling /\ Sampling_bosr(t)
    /\ SamplingWrite(m, "Bosr", 0, Bosr(Self, m))

WriteSrBits(value) ==
    /\ InSampling /\ Sampling_sr(t)
    /\ SamplingWrite("bits", "Sr", value, Sr_bits(Self, value))

WriteSrNamed(p) ==
    /\ InSampling /\ Sampling_sr(t)
    /\ p \in Sr_named(t)
    /\ SamplingWrite(p[1], "Sr", p[2], Sr_bits(Self, p[2]))

WriteSampleRate(p) ==
    /\ InSampling /\ Sampling_sample_rate(t)
    /\ p \in SampleRate_named(t[1])
    /\ SamplingWrite(p[1], "SampleRate", p[2], SampleRate_bits(Self, p[2]))

\* command/sampling.rs
command_WriteUsbNormal(m) ==
    /\ InCommandSampling /\ command_Sampling_raw(t)
    /\ SamplingWrite(m, "UsbNormal", 0, command_UsbNormal(Self, m))

command_WriteBosr(m) ==
    /\ InCommandSampling /\ command_Sampling_raw(t)
    /\ SamplingWrite(m, "Bosr", 0, command_Bosr(Self, m))

command_WriteSrBits(value) ==
    /\ InCommandSampling /\ command_Sampling_raw(t)
    /\ SamplingWrite("bits", "Sr", value, command_Sr_bits(Self, value))

command_WriteSrNamed(p) ==
    /\ InCommandSampling /\ command_Sampling_raw(t)
    /\ p \in command_Sr_named(t)
    /\ SamplingWrite(p[1], "Sr", p[2], command_Sr_bits(Self, p[2]))

command_WriteSampleRate(p) ==
    /\ InCommandSampling /\ command_Sampling_sample_rate(t)
    /\ p \in command_SampleRate_named(t[1])
    /\ SamplingWrite(p[1], "SampleRate", p[2], command_SampleRate_bits(Self, p[2]))

\* into_command(): the command carries the builder's data
IntoCommand ==
    /\ cmd = <<>>
    /\ IntoCommandOffered
    /\ cmd' = <<data>>
    /\ UNCHANGED <<builder, data, t, written, wrote, last, wide, out, kept, driver>>

\* The command returned by into_command().
Command == [data |-> cmd[1]]

\* Frame::from(command).into(): the conversion of the command's frame into type
IntoFrame(type) ==
    /\ cmd # <<>>
    /\ out = <<>>
    /\ out' = <<type, Frame_into(type, Frame_from(Command))>>
    /\ UNCHANGED <<builder, data, t, cmd, written, wrote, last, wide, kept, driver>>

FrameTypes == {"[u8; 2]", "[u16; 1]", "u16"}

UsbNormalMethods == {"clear_bit", "set_bit", "normal", "usb"}

BosrMethods == {"clear_bit", "set_bit"}

MethodNames == UNION {{p[1] : p \in w.methods} : w \in Writers(builder)}

NamedNames == UNION {{p[1] : p \in w.named} : w \in Writers(builder)}

Arms == UNION {w.variant : w \in Writers(builder)}

AllSrNamed == Sr_named(<<"Normal", "Unset">>) \cup command_Sr_named(<<"Normal", "BosrClear">>)

AllSampleRateNamed == UNION {SampleRate_named(m) \cup command_SampleRate_named(m) : m \in Mclk}

Next ==
    \/ \E w \in Writers(builder), value \in Values : WriteBits(w, value)
    \/ \E w \in Writers(builder), m \in MethodNames, value \in {0, 1} : WriteBit(w, m, value)
    \/ \E w \in Writers(builder), m \in NamedNames : WriteNamed(w, m)
    \/ \E w \in Writers(builder), arm \in Arms : WriteVariant(w, arm)
    \/ \E w \in Writers(builder) : \E volume \in DbSteps(w) : WriteDb(w, volume)
    \/ Active
    \/ Inactive
    \/ \E m \in UsbNormalMethods : WriteUsbNormal(m)
    \/ \E m \in BosrMethods : WriteBosr(m)
    \/ \E value \in Values : WriteSrBits(value)
    \/ \E p \in AllSrNamed : WriteSrNamed(p)
    \/ \E p \in AllSampleRateNamed : WriteSampleRate(p)
    \/ \E m \in UsbNormalMethods : command_WriteUsbNormal(m)
    \/ \E m \in BosrMethods : command_WriteBosr(m)
    \/ \E value \in Values : command_WriteSrBits(value)
    \/ \E p \in AllSrNamed : command_WriteSrNamed(p)
    \/ \E p \in AllSampleRateNamed : command_WriteSampleRate(p)
    \/ IntoCommand
    \/ \E type \in FrameTypes : IntoFrame(type)

Spec == Init /\ [][Next]_vars

----------------------------------------------------------------------------
(* lib.rs: the driver and its serial interfaces.                           *)

\* At most MaxSends commands are given to Wm8731::send.
MaxSends == 2

\* The addresses the codec answers to on an I2C bus.
I2CAddresses == {\b0011010, \b0011011}

\* The operations of an interface on its bus and on its chip select pin; each
\* returns a Result, the implementation of the bus or of the pin decides which.
BusOps(kind) ==
    IF kind = "I2C" THEN {"i2c.write"} ELSE {"cs.set_low", "spi.write", "cs.set_high"}

\* I2CInterface, SPIInterface<SPI, CS, u8> and SPIInterface<SPI, CS, u16>, each
\* over a bus and a pin some of whose operations report an error: <<kind,
\* address, operations that return Err>>
Interfaces ==
    {<<"I2C", a, f>> : a \in I2CAddresses, f \in SUBSET BusOps("I2C")}
        \cup {<<k, 0, f>> : k \in {"SPI_u8", "SPI_u16"}, f \in SUBSET BusOps("SPI")}

\* One operation of an interface on its bus or on its chip select pin, with the
\* Result it returned.
BusOp(op, address, words, result) ==
    [op |-> op, address |-> address, words |-> words, result |-> result]

\* What the operation op of interface i returns.
Result(i, op) == IF op \in i[3] THEN "Err" ELSE "Ok"

\* Bug: a send returns at the first operation that reports an error, as with `?`.
WriteFrame_send_propagates(i, frame) ==
    LET type == IF i[1] = "SPI_u16" THEN "[u16; 1]" ELSE "[u8; 2]"
        write == IF i[1] = "I2C" THEN "i2c.write" ELSE "spi.write"
        ops == IF i[1] = "I2C"
               THEN << BusOp(write, i[2], Frame_into(type, frame), Result(i, write)) >>
               ELSE << BusOp("cs.set_low", 0, <<>>, Result(i, "cs.set_low")),
                       BusOp(write, 0, Frame_into(type, frame), Result(i, write)),
                       BusOp("cs.set_high", 0, <<>>, Result(i, "cs.set_high")) >>
        failed == {k \in 1..Len(ops) : ops[k].result = "Err"}
        done == IF failed = {} THEN Len(ops)
                ELSE CHOOSE k \in failed : \A n \in failed : k <= n
    IN  SubSeq(ops, 1, done)

\* Bug: on SPI the frame is written before the chip select is driven low.
WriteFrame_send_late_select(i, frame) ==
    CASE i[1] = "I2C" ->
            << BusOp("i2c.write", i[2], Frame_into("[u8; 2]", frame), Result(i, "i2c.write")) >>
      [] i[1] = "SPI_u8" ->
            << BusOp("spi.write", 0, Frame_into("[u8; 2]", frame), Result(i, "spi.write")),
               BusOp("cs.set_low", 0, <<>>, Result(i, "cs.set_low")),
               BusOp("cs.set_high", 0, <<>>, Result(i, "cs.set_high")) >>
      [] i[1] = "SPI_u16" ->
            << BusOp("spi.write", 0, Frame_into("[u16; 1]", frame), Result(i, "spi.write")),
               BusOp("cs.set_low", 0, <<>>, Result(i, "cs.set_low")),
               BusOp("cs.set_high", 0, <<>>, Result(i, "cs.set_high")) >>

\* WriteFrame::send of each interface: the operations it does, in order; every
\* Result is dropped (`let _ =`), so each operation is done whatever the one
\* before it returned.
WriteFrame_send(i, frame) ==
    CASE i[1] = "I2C" ->
            << BusOp("i2c.write", i[2], Frame_into("[u8; 2]", frame), Result(i, "i2c.write")) >>
      [] i[1] = "SPI_u8" ->
            << BusOp("cs.set_low", 0, <<>>, Result(i, "cs.set_low")),
               BusOp("spi.write", 0, Frame_into("[u8; 2]", frame), Result(i, "spi.write")),
               BusOp("cs.set_high", 0, <<>>, Result(i, "cs.set_high")) >>
      [] i[1] = "SPI_u16" ->
            << BusOp("cs.set_low", 0, <<>>, Result(i, "cs.set_low")),
               BusOp("spi.write", 0, Frame_into("[u16; 1]", frame), Result(i, "spi.write")),
               BusOp("cs.set_high", 0, <<>>, Result(i, "cs.set_high")) >>

\* The builder chain in progress and its command.
chain == <<builder, data, t, cmd, written, wrote, last, wide, out>>

\* Bug: the driver is made without sending the reset command.
Wm8731_new_no_reset(i) ==
    /\ interface = <<>>
    /\ interface' = i
    /\ UNCHANGED <<wire, calls, chain, kept>>

\* Wm8731::new(interface): sends reset().into_command(), returns the driver
Wm8731_new(i) ==
    /\ interface = <<>>
    /\ interface' = i
    /\ wire' = wire \o WriteFrame_send(i, Frame_from([data |-> Reset_new.data]))
    /\ UNCHANGED <<calls, chain, kept>>

\* Wm8731::send(cmd), with the command of the chain; a command is Copy and can
\* be sent again
Wm8731_send ==
    /\ interface # <<>>
    /\ cmd # <<>>
    /\ Len(calls) < MaxSends
    /\ wire' = wire \o WriteFrame_send(interface, Frame_from(Command))
    /\ calls' = Append(calls, Command.data)
    /\ UNCHANGED <<interface, chain, kept>>

\* The constructor functions called in the chains whose commands are sent.
DriverBuilders == {"reset", "active_control", "power_down", "right_line_in"}

\* After a command is made, another chain starts at a constructor function.
Construct(b) ==
    /\ cmd # <<>>
    /\ builder' = b
    /\ data' = New(b, "Mclk12M", 0).data
    /\ t' = New(b, "Mclk12M", 0).t
    /\ cmd' = <<>>
    /\ written' = FALSE
    /\ wrote' = {}
    /\ last' = NoWrite
    /\ wide' = FALSE
    /\ out' = <<>>
    /\ UNCHANGED <<kept, driver>>

DriverInit == Init /\ builder \in DriverBuilders

DriverNext ==
    \/ \E i \in Interfaces : Wm8731_new(i)
    \/ Wm8731_send
    \/ \E b \in DriverBuilders : Construct(b)
    \/ Active
    \/ Inactive
    \/ IntoCommand

DriverSpec == DriverInit /\ [][DriverNext]_vars

----------------------------------------------------------------------------
(* Copies of a builder: every builder is Copy, a method takes `self` by     *)
(* value and works on its own copy.                                        *)

\* The builder of the chain as a value: its data and its type, with the history
\* of the writes that made it.
Value ==
    [ data |-> data, t |-> t, written |-> written, wrote |-> wrote, last |-> last,
      wide |-> wide ]

\* let new_cmd = <builder>: the program keeps the builder in a variable and
\* goes on with a copy of it
Retain ==
    /\ cmd = <<>>
    /\ kept = <<>>
    /\ kept' = <<Value>>
    /\ UNCHANGED <<chain, driver>>

\* The program starts another chain from the variable that holds the copy.
Resume ==
    /\ kept # <<>>
    /\ Value # kept[1]
    /\ data' = kept[1].data
    /\ t' = kept[1].t
    /\ written' = kept[1].written
    /\ wrote' = kept[1].wrote
    /\ last' = kept[1].last
    /\ wide' = kept[1].wide
    /\ cmd' = <<>>
    /\ out' = <<>>
    /\ UNCHANGED <<builder, kept, driver>>

\* The builders whose chains are forked.
ForkBuilders == {"sampling_command_builder", "left_line_in"}

ForkInit == Init /\ builder \in ForkBuilders

ForkNext ==
    \/ Retain
    \/ Resume
    \/ \E w \in Writers(builder), value \in Values : WriteBits(w, value)
    \/ \E w \in Writers(builder), m \in MethodNames : WriteBit(w, m, 0)
    \/ \E m \in UsbNormalMethods : WriteUsbNormal(m)
    \/ \E m \in BosrMethods : WriteBosr(m)
    \/ \E p \in AllSrNamed : WriteSrNamed(p)
    \/ IntoCommand

ForkSpec == ForkInit /\ [][ForkNext]_vars

----------------------------------------------------------------------------
(* Properties.                                                             *)

Bit(x, i) == (x \div 2^i) % 2

Field(x, lenght, shift) == (x \div 2^shift) % 2^lenght

\* The register map: address and reset payload of each constructor's register.
RegisterMap ==
    [ b \in Builders \ {"tests::Cmd"} |->
        CASE b = "left_line_in" -> <<0, \b010010111>>
          [] b = "right_line_in" -> <<1, \b010010111>>
          [] b = "left_headphone_out" -> <<2, \b001111001>>
          [] b = "right_headphone_out" -> <<3, \b001111001>>
          [] b \in {"analogue_audio_path", "command::analogue_audio_path"} -> <<4, \b1010>>
          [] b = "digital_audio_path" -> <<5, \b1000>>
          [] b = "power_down" -> <<6, \b10011111>>
          [] b = "digital_audio_interface" -> <<7, \b1010>>
          [] b \in {"sampling_command_builder", "sampling_command_builder_mclk",
                    "command::sampling", "command::sampling_with_mclk"} -> <<8, 0>>
          [] b = "active_control" -> <<9, 0>>
          [] b = "reset" -> <<6, \b10011111>> ]

ResetValue(b) == RegisterMap[b][1] * 2^9 + RegisterMap[b][2]

\* C1: the freshly constructed builder of every register, and the command made
\* from it by into_command() with no field write in between, has the value
\* (address << 9) | reset payload of the register map.
C1_ResetValues ==
    (builder \in DOMAIN RegisterMap /\ ~written) =>
        /\ data = ResetValue(builder)
        /\ cmd # <<>> => cmd[1] = ResetValue(builder)

\* A power down builder turned into a command right after construction.
C1_Witness == builder = "power_down" /\ ~written /\ cmd # <<>>

\* The value the constructor of the chain's builder returned.
Constructed == {New(builder, MCLK, d).data : MCLK \in Mclk, d \in tests_Cmd_data}

\* C2: whatever field writers are applied, bits 15..9 of the builder's value are
\* the bits 15..9 the constructor fixed; only bits 8..0 differ from that value.
C2_AddressInvariant ==
    \E c \in Constructed : data \div 2^9 = c \div 2^9

\* A headphone builder all of whose nine payload bits have been written to one.
C2_Witness ==
    /\ builder = "right_headphone_out"
    /\ written
    /\ data % 2^9 = 2^9 - 1

\* The value a write of v to the field (lenght, shift) of old must give.
BitRangeWrite(old, v, lenght, shift) ==
    old - Field(old, lenght, shift) * 2^shift + (v % 2^lenght) * 2^shift

\* C3: bits(v) on a field of lenght L at shift S replaces the field by v
\* truncated to L bits and leaves every other bit as it was, for every input;
\* the write is possible for every input; right_line_in().invol().bits(0xFF)
\* gives 0b10_1001_1111.
C3_BitsWrite ==
    cmd = <<>> =>
        /\ \A w \in {x \in Writers(builder) : x.bits}, value \in Values :
            /\ ENABLED WriteBits(w, value)
            /\ ~ENABLED ( /\ WriteBits(w, value)
                          /\ data' # BitRangeWrite(data, value, w.lenght, w.shift) )
            /\ (builder = "right_line_in" /\ ~written) =>
                    ~ENABLED (WriteBits(w, \b11111111) /\ data' # \b1010011111)
        /\ \A value \in Values :
            /\ SrOffered =>
                /\ ENABLED (WriteSrBits(value) \/ command_WriteSrBits(value))
                /\ ~ENABLED ( /\ WriteSrBits(value) \/ command_WriteSrBits(value)
                              /\ data' # BitRangeWrite(data, value, 4, 2) )

\* The line in volume of the right channel after a write of a value wider than
\* its five bits, all of whose low five bits are one.
C3_Witness ==
    /\ builder = "right_line_in"
    /\ wide
    /\ data = \b1010011111

\* C4: set_bit() and enable() of a toggle field at position P return the value
\* with bit P one and the other bits unchanged; clear_bit() and disable() return
\* it with bit P zero and the other bits unchanged.
C4_ToggleWrite ==
    \A w \in Writers(builder) :
        /\ ~ENABLED ( /\ WriteBit(w, "set_bit", 0) \/ WriteBit(w, "enable", 0)
                      /\ data' # data + (1 - Bit(data, w.shift)) * 2^w.shift )
        /\ ~ENABLED ( /\ WriteBit(w, "clear_bit", 0) \/ WriteBit(w, "disable", 0)
                      /\ data' # data - Bit(data, w.shift) * 2^w.shift )

\* A power down builder whose POWEROFF bit was cleared and OSCPD bit was set.
C4_Witness ==
    /\ builder = "power_down"
    /\ data % 2^9 = \b000111111

\* The builders of the raw style and of the master clock style.
RawStyle == {"sampling_command_builder", "command::sampling"}

MclkStyle == {"sampling_command_builder_mclk", "command::sampling_with_mclk"}

\* C5 as stated: in both raw style builders into_command() is available exactly
\* when the chain has an SR write and its last write of USB/NORMAL, BOSR or SR is
\* an SR write.
C5_Original ==
    builder \in RawStyle => (IntoCommandOffered <=> LastW = "Sr")

\* C5: in the raw style builder of sampling.rs into_command() is available
\* exactly when the last write of USB/NORMAL, BOSR or SR is an SR write; in the
\* one of command/sampling.rs it is available exactly when that last write is an
\* SR write or the chain has no such write at all.
C5_IntoCommandAfterSr ==
    /\ builder = "sampling_command_builder" =>
            /\ IntoCommandOffered <=> LastW = "Sr"
            /\ cmd # <<>> => LastW = "Sr"
    /\ builder = "command::sampling" =>
            /\ IntoCommandOffered <=> LastW \in {"Sr", "none"}
            /\ cmd # <<>> => LastW \in {"Sr", "none"}

\* A command of command::sampling() finalized with no write of USB/NORMAL, BOSR
\* or SR.
C5_Witness ==
    /\ builder = "command::sampling"
    /\ LastW = "none"
    /\ cmd # <<>>

\* C6: in command/sampling.rs every write through usb_normal() or bosr() is
\* possible in every state of the raw style builder and gives a builder without
\* into_command(), with only bit 0, respectively bit 1, changed; into_command()
\* stays unavailable until SR is written again.
C6_ModeAndBosrInvalidateSr ==
    (builder = "command::sampling" /\ cmd = <<>>) =>
        /\ \A m \in UsbNormalMethods :
            /\ ENABLED command_WriteUsbNormal(m)
            /\ ~ENABLED ( /\ command_WriteUsbNormal(m)
                          /\ \/ IntoCommandOffered'
                             \/ data' \div 2 # data \div 2 )
        /\ \A m \in BosrMethods :
            /\ ENABLED command_WriteBosr(m)
            /\ ~ENABLED ( /\ command_WriteBosr(m)
                          /\ \/ IntoCommandOffered'
                             \/ data' \div 4 # data \div 4
                             \/ data' % 2 # data % 2 )
        /\ LastW \in {"UsbNormal", "Bosr"} => ~ENABLED IntoCommand

\* SR was written, then USB/NORMAL: into_command() is not available.
C6_Witness ==
    /\ builder = "command::sampling"
    /\ "Sr" \in wrote
    /\ LastW = "UsbNormal"
    /\ ~IntoCommandOffered

\* C7: in sampling.rs, every state of the raw style builder reached by or after
\* an SR write offers neither usb_normal() nor bosr(), and no step after an SR
\* write changes bit 0 or bit 1.
C7_NoModeChangeAfterSr ==
    [][ (builder = "sampling_command_builder" /\ "Sr" \in wrote') =>
            /\ ~UsbNormalOffered'
            /\ ~BosrOffered'
            /\ "Sr" \in wrote => data' % 4 = data % 4 ]_vars

\* A command finalized after SR was written in USB mode with BOSR set.
C7_Witness ==
    /\ builder = "sampling_command_builder"
    /\ "Sr" \in wrote
    /\ data % 4 = 3
    /\ cmd # <<>>

\* C8: in sampling.rs sr() is offered only after a write of USB/NORMAL and, in
\* USB mode, of BOSR; in Normal mode it is offered after the write of USB/NORMAL
\* whether or not BOSR was written; every SR write comes after those writes.
C8_SrNeedsModeAndBosr ==
    builder = "sampling_command_builder" =>
        /\ SrOffered =>
                /\ "UsbNormal" \in wrote
                /\ Bit(data, 0) = 1 => "Bosr" \in wrote
        /\ ("UsbNormal" \in wrote /\ Bit(data, 0) = 0) => SrOffered
        /\ "Sr" \in wrote =>
                /\ "UsbNormal" \in wrote
                /\ Bit(data, 0) = 1 => "Bosr" \in wrote

\* SR written in Normal mode without any write of BOSR.
C8_Witness ==
    /\ builder = "sampling_command_builder"
    /\ "Sr" \in wrote
    /\ "Bosr" \notin wrote
    /\ Bit(data, 0) = 0

\* C9: in the master clock style into_command() is available exactly in the
\* states reached by or after a named sample rate selection: not on the new
\* builder, not after clock divider writes alone, and always afterwards.
C9_MclkIntoCommand ==
    builder \in MclkStyle =>
        /\ IntoCommandOffered <=> "SampleRate" \in wrote
        /\ cmd # <<>> => "SampleRate" \in wrote
        /\ (cmd = <<>> /\ "SampleRate" \in wrote) => ENABLED IntoCommand

\* A command finalized after a named sample rate and a CLKIDIV2 write.
C9_Witness ==
    /\ builder = "command::sampling_with_mclk"
    /\ "SampleRate" \in wrote
    /\ Bit(data, 6) = 1
    /\ cmd # <<>>

\* C10 as stated: the command finalized after a named sample rate has the 6 bit
\* code of that rate in payload bits 5..0.
C10_Original ==
    (builder \in MclkStyle /\ LastW = "SampleRate" /\ cmd # <<>>) =>
        cmd[1] % 2^6 = last.v

\* C11 as stated: after a named sample rate, bit 0 (USB/NORMAL) is 1 on a
\* builder with the 12 MHz clock and 0 on a builder with any other clock.
C11_Original ==
    (builder \in MclkStyle /\ "SampleRate" \in wrote) =>
        Bit(data, 0) = IF t[1] = "Mclk12M" THEN 1 ELSE 0

\* The SR codes of the sr_0bXXXX methods that can be called in the current state.
SrCodesOffered ==
    { p[2] : p \in { q \in AllSrNamed :
                        ENABLED (WriteSrNamed(q) \/ command_WriteSrNamed(q)) } }

\* The number of sr_0bXXXX methods the current state offers is normal in Normal
\* mode, usb_clear in USB mode with BOSR clear and usb_set in USB mode with BOSR
\* set, each method with a code of its own among the 16.
SrCodeCounts(normal, usb_clear, usb_set) ==
    (builder \in RawStyle /\ cmd = <<>> /\ SrOffered) =>
        /\ SrCodesOffered \subseteq 0..15
        /\ Cardinality(SrCodesOffered) =
                IF Bit(data, 0) = 0 THEN normal
                ELSE IF Bit(data, 1) = 0 THEN usb_clear
                ELSE usb_set

\* C12 as stated: 10 codes in Normal mode, 6 in USB mode with BOSR clear, 5 in
\* USB mode with BOSR set.
C12_Original == SrCodeCounts(10, 6, 5)

\* C12: the named SR writers offer exactly 11 of the 16 codes in Normal mode,
\* exactly 6 in USB mode with BOSR clear and exactly 5 in USB mode with BOSR set.
C12_SrCodesPerMode == SrCodeCounts(11, 6, 5)

\* sr_0b1111 was called in Normal mode, where BOSR was left clear.
C12_Witness ==
    /\ builder \in RawStyle
    /\ last.name = "sr_0b1111"
    /\ data % 4 = 0

\* The mode and BOSR markers that the bits 0 and 1 of a value stand for.
ModeBosrOf(x) ==
    << IF Bit(x, 0) = 1 THEN "Usb" ELSE "Normal",
       IF Bit(x, 1) = 1 THEN "BosrIsSet" ELSE "BosrIsClear" >>

\* C13: a command of a raw style builder whose SR was last written by a named
\* writer, or never written, as in every chain without a call of the raw
\* Sr::bits, has in bits 5..2 one of the SR codes the named writers offer for
\* the mode in its bit 0 and the BOSR in its bit 1: never 0b0000 in USB mode with
\* BOSR set, never 0b1111 in USB mode with BOSR clear.
C13_ConsistentSr ==
    (builder \in RawStyle /\ cmd # <<>> /\ last.name # "bits") =>
        /\ \E p \in Sr_named(ModeBosrOf(cmd[1])) : p[2] = Field(cmd[1], 4, 2)
        /\ cmd[1] % 4 = 3 => Field(cmd[1], 4, 2) # \b0000
        /\ cmd[1] % 4 = 1 => Field(cmd[1], 4, 2) # \b1111

\* A command finalized in USB mode with BOSR set, after sr_0b1111 and a write of
\* CLKODIV2.
C13_Witness ==
    /\ builder = "command::sampling"
    /\ cmd # <<>>
    /\ last.name = "sr_0b1111"
    /\ data % 4 = 3
    /\ Bit(data, 7) = 1

\* The names of the rates derived from 44.1 kHz and of those derived from 48 kHz.
Family44k1 == {"adc44k1_dac44k1", "adc44k1_dac8k", "adc8k_dac44k1", "adc88k2_dac88k2"}

Family48k ==
    {"adc48k_dac48k", "adc48k_dac8k", "adc8k_dac48k", "adc32k_dac32k", "adc96k_dac96k"}

\* The names of the named sample rates that can be selected in the current state.
SampleRatesOffered ==
    { p[1] : p \in { q \in AllSampleRateNamed :
                        ENABLED (WriteSampleRate(q) \/ command_WriteSampleRate(q)) } }

\* C14: a builder with the 12.288 MHz or the 18.432 MHz clock offers every rate
\* of the 48 kHz family and none of the 44.1 kHz family, and never had one
\* selected; a builder with the 11.2896 MHz or the 16.9344 MHz clock offers
\* every rate of the 44.1 kHz family and none of the 48 kHz family.
C14_RatesPerClock ==
    builder \in MclkStyle =>
        /\ t[1] \in {"Mclk12M288", "Mclk18M432"} =>
            /\ last.name \notin Family44k1
            /\ cmd = <<>> =>
                /\ SampleRatesOffered \cap Family44k1 = {}
                /\ Family48k \subseteq SampleRatesOffered
        /\ t[1] \in {"Mclk11M2896", "Mclk16M9344"} =>
            /\ last.name \notin Family48k
            /\ cmd = <<>> =>
                /\ SampleRatesOffered \cap Family48k = {}
                /\ Family44k1 \subseteq SampleRatesOffered

\* adc88k2_dac88k2 was selected on a builder with the 11.2896 MHz clock.
C14_Witness ==
    /\ builder \in MclkStyle
    /\ t[1] = "Mclk11M2896"
    /\ last.name = "adc88k2_dac88k2"

\* The exclusive or of two 16 bit words.
u16_xor(a, b) == a + b - 2 * u16_and(a, b)

\* C15: the value of a new right line in builder and the value of a new left
\* line in builder differ exactly in bit 9, and so do the values of the new
\* headphone out builders: the default payloads, bits 8..0, are the same.
C15_LeftRightAddress ==
    ~written =>
        /\ builder = "right_line_in" =>
            /\ u16_xor(data, LeftLineIn_new.data) = 2^9
            /\ data % 2^9 = LeftLineIn_new.data % 2^9
        /\ builder = "left_line_in" =>
            u16_xor(RightLineIn_new.data, data) = 2^9
        /\ builder = "right_headphone_out" =>
            /\ u16_xor(data, LeftHeadphoneOut_new.data) = 2^9
            /\ data % 2^9 = LeftHeadphoneOut_new.data % 2^9
        /\ builder = "left_headphone_out" =>
            u16_xor(RightHeadphoneOut_new.data, data) = 2^9

\* A new right headphone out builder, finalized with no write.
C15_Witness ==
    /\ builder = "right_headphone_out"
    /\ ~written
    /\ cmd # <<>>

\* C16: in every state of a builder, each write bits(v), set_bit(), clear_bit(),
\* enable(), disable() and bit(b) gives a value that the same write, applied
\* once more, leaves as it is.
C16_Idempotence ==
    cmd = <<>> =>
        \A w \in Writers(builder) :
            /\ \A value \in Values :
                ~ENABLED ( /\ WriteBits(w, value)
                           /\ impl_bits(data', value, w.lenght, w.shift) # data' )
            /\ \A m \in {"set_bit", "clear_bit", "enable", "disable", "bit"}, b \in {0, 1} :
                ~ENABLED ( /\ WriteBit(w, m, b)
                           /\ Method(data', w, m, b) # data' )

\* The test command after bits(0xFF) on its five bit field, where the same
\* write and a set_bit() that was already applied can be repeated.
C16_Witness ==
    /\ builder = "tests::Cmd"
    /\ wide
    /\ data = \b1111111
    /\ \E w \in Writers(builder) : ENABLED (WriteBits(w, 255) /\ data' = data)
    /\ \E w \in Writers(builder) : ENABLED (WriteBit(w, "set_bit", 0) /\ data' = data)

\* What the frame of a command of value d converts into is d itself, the one
\* word [d], and the two bytes [d >> 8, d & 0xFF], for each of the 2^16 values.
EveryWordConverts ==
    \A d \in 0..(2^16 - 1) :
        LET frame == Frame_from([data |-> d])
            bytes == Frame_into("[u8; 2]", frame)
        IN  /\ Frame_into("u16", frame) = d
            /\ Frame_into("[u16; 1]", frame) = << d >>
            /\ bytes = << d \div 2^8, u16_and(d, 255) >>
            /\ bytes[1] \in 0..255 /\ bytes[2] \in 0..255
            /\ 256 * bytes[1] + bytes[2] = d

\* C17: the frame of the command finalized from a builder of value d converts
\* into the u16 d, into the array [d] and into the bytes [d >> 8, d & 0xFF],
\* the high byte first, so that 256 * byte0 + byte1 = d; the same holds for
\* each value d in 0..65535.
C17_FrameConversions ==
    /\ EveryWordConverts
    /\ out # <<>> =>
        /\ cmd = << data >>
        /\ out[1] = "u16" => out[2] = data
        /\ out[1] = "[u16; 1]" => out[2] = << data >>
        /\ out[1] = "[u8; 2]" =>
            /\ out[2] = << data \div 2^8, u16_and(data, 255) >>
            /\ 256 * out[2][1] + out[2][2] = data

\* The bytes of the command of the active control builder after active(): the
\* two bytes differ, and neither is zero.
C17_Witness ==
    /\ builder = "active_control"
    /\ out = << "[u8; 2]", << 18, 1 >> >>

\* The values of the frames written on the bus, oldest first.
FramesOn(w) ==
    LET writes == SelectSeq(w, LAMBDA e : e.op \in {"i2c.write", "spi.write"})
        value(words) == IF Len(words) = 2 THEN 256 * words[1] + words[2] ELSE words[1]
    IN  [k \in 1..Len(writes) |-> value(writes[k].words)]

\* C18: before a driver is made nothing is sent; once Wm8731::new has returned,
\* the frames on the bus are the reset frame followed by one frame for each
\* call of send, with the value of its command, in the order of the calls.
C18_ResetFirst ==
    /\ interface = <<>> => wire = <<>> /\ calls = <<>>
    /\ interface # <<>> => FramesOn(wire) = << Reset_new.data >> \o calls

\* Two different commands were sent through an SPI interface of 8 bit words.
C18_Witness ==
    /\ interface = <<"SPI_u8", 0, {}>>
    /\ Len(calls) = 2
    /\ calls[1] # calls[2]
    /\ calls[2] = Reset_new.data


\* C19: Hpvol::db(step) gives what Hpvol::bits(raw(step)) gives and changes only
\* bits 6..0, and Sideatt::db(step) gives what Sideatt::bits(raw(step)) gives and
\* changes only bits 7..6, raw(step) being the field code of the step.
C19_Original ==
    \A w \in Writers(builder) : \A volume \in DbSteps(w) :
        LET raw == IF w.name = "Hpvol" THEN HpVoldB_into_raw(volume)
                   ELSE SideAttdB_into_raw(volume)
            expected == impl_bits(data, raw, w.lenght, w.shift)
            outside(i) == i < w.shift \/ i >= w.shift + w.lenght
        IN  ~ENABLED ( /\ WriteDb(w, volume)
                       /\ \/ data' # expected
                          \/ \E i \in 0..15 : outside(i) /\ Bit(data', i) # Bit(data, i) )


\* The builders of the registers other than sampling (and other than reset).
PlainBuilders ==
    { "left_line_in", "right_line_in", "left_headphone_out", "right_headphone_out",
      "analogue_audio_path", "command::analogue_audio_path", "digital_audio_path",
      "power_down", "digital_audio_interface", "active_control" }

\* Every method of writer w can be called on the builder as it is.
WriterAvailable(w) ==
    /\ w.bits => \A value \in Values : ENABLED WriteBits(w, value)
    /\ \A p \in w.methods : \A value \in {0, 1} :
           (p[1] = "bit" \/ value = 0) => ENABLED WriteBit(w, p[1], value)
    /\ \A p \in w.named : ENABLED WriteNamed(w, p[1])
    /\ \A arm \in w.variant : ENABLED WriteVariant(w, arm)
    /\ \A volume \in DbSteps(w) : ENABLED WriteDb(w, volume)

\* C20: on every register builder other than sampling, into_command() is
\* available right after construction and after any sequence of field writes,
\* and so is every method of every field writer: no write disables another.
C20_AlwaysFinalizable ==
    (builder \in PlainBuilders /\ cmd = <<>>) =>
        /\ ENABLED IntoCommand
        /\ \A w \in Writers(builder) : WriterAvailable(w)
        /\ builder = "active_control" => ENABLED Active /\ ENABLED Inactive

\* A left line in command made after the three fields were written: volume
\* 31, mute cleared, both set.
C20_Witness ==
    /\ builder = "left_line_in"
    /\ cmd # <<>>
    /\ data % 2^9 = \b100011111


\* The number of times the interface did operation op.
Attempts(op) == Len(SelectSeq(wire, LAMBDA e : e.op = op))

\* C21: whatever operations of the bus and of the pin report an error, every
\* send returns and has done each of its operations once: one bus write per
\* send and, on SPI, a set_low and a set_high per send, the reset frame of
\* Wm8731::new included; the operations that report an error are recorded as
\* failed, and the driver takes the next send all the same.
C21_SilentFailures ==
    interface # <<>> =>
        /\ \A op \in BusOps(interface[1]) : Attempts(op) = 1 + Len(calls)
        /\ Len(wire) = Cardinality(BusOps(interface[1])) * (1 + Len(calls))
        /\ \A k \in 1..Len(wire) : wire[k].result = "Err" <=> wire[k].op \in interface[3]
        /\ (cmd # <<>> /\ Len(calls) < MaxSends) => ENABLED Wm8731_send

\* Two commands were sent through an SPI interface whose three operations all
\* report an error.
C21_Witness ==
    /\ interface # <<>>
    /\ interface[1] = "SPI_u8"
    /\ interface[3] = {"cs.set_low", "spi.write", "cs.set_high"}
    /\ Len(calls) = 2
    /\ Len(wire) = 9
    /\ wire[8].result = "Err"


\* C22: once the program has retained a copy of a builder, no write through a
\* field writer, no finalization and no other chain changes the copy: each
\* chain works on a value of its own.
C22_IndependentValues == [][kept # <<>> => kept' = kept]_vars

\* The fresh sampling builder was retained and a chain that went on from it has
\* written USB mode: the two values differ.
C22_Witness ==
    /\ builder = "sampling_command_builder"
    /\ kept # <<>>
    /\ ~kept[1].written /\ kept[1].wrote = {}
    /\ cmd = <<>>
    /\ wrote = {"UsbNormal"}
    /\ data # kept[1].data


\* C23: on every value a toggle writer is applied to, bit(true), set_bit() and
\* enable() return the same value, and bit(false), clear_bit() and disable()
\* return the same value; each of the five can be called.
C23_ToggleConsistent ==
    cmd = <<>> =>
        \A w \in {x \in Writers(builder) : x.methods = impl_bitsetters} :
            /\ \A b \in {0, 1} : ENABLED WriteBit(w, "bit", b)
            /\ \A m \in {"set_bit", "enable"} :
                /\ ENABLED WriteBit(w, m, 0)
                /\ ~ENABLED (WriteBit(w, m, 0) /\ data' # impl_bit(data, 1, w.shift))
            /\ \A m \in {"clear_bit", "disable"} :
                /\ ENABLED WriteBit(w, m, 0)
                /\ ~ENABLED (WriteBit(w, m, 0) /\ data' # impl_bit(data, 0, w.shift))

\* The power down builder with CLKOUTPD and OSCPD set and the six other bits
\* cleared: toggle writers were applied to values with the bit set and with the
\* bit clear.
C23_Witness ==
    /\ builder = "power_down"
    /\ cmd = <<>>
    /\ data % 2^9 = \b001100000


\* C24: every command finalized through the master clock style has, in bits
\* 5..2, an SR code that the named SR writers of the raw style offer for the
\* mode in its bit 0 and the BOSR in its bit 1, so that the raw style can make
\* the same 16 bit value with usb_normal(), bosr(), a named sr() write and the
\* writers of CLKIDIV2 and CLKODIV2.
C24_Original ==
    (builder \in MclkStyle /\ cmd # <<>>) =>
        /\ cmd[1] \div 2^9 = Sampling_new.data \div 2^9
        /\ \E p \in Sr_named(ModeBosrOf(cmd[1])) \cup command_Sr_named(ModeBosrOf(cmd[1])) :
               p[2] = Field(cmd[1], 4, 2)


\* C25: in every state of a raw style sampling builder the mode tag is Usb
\* exactly when bit 0 is one (Normal or Unset when it is zero), and the BOSR tag
\* is the set one exactly when bit 1 is one (the clear one or Unset when it is
\* zero), whatever writes of mode, BOSR, SR and clock dividers were made.
C25_TagsAgreeWithBits ==
    builder \in RawStyle =>
        /\ t[1] \in {"Usb", "Normal", "Unset"}
        /\ t[2] \in {"BosrIsSet", "BosrSet", "BosrIsClear", "BosrClear", "Unset"}
        /\ t[1] = "Usb" <=> Bit(data, 0) = 1
        /\ t[2] \in {"BosrIsSet", "BosrSet"} <=> Bit(data, 1) = 1

\* USB mode and BOSR set were written, then the raw Sr::bits got 0xFF and
\* CLKIDIV2 was set.
C25_Witness ==
    /\ builder = "sampling_command_builder"
    /\ t = <<"Usb", "BosrIsSet", "SrIsSet">>
    /\ last.name = "bits"
    /\ last.v = 255
    /\ data % 2^9 = \b001111111


\* C26: on every builder of the master clock style, two named sample rates of
\* different names that the clock offers give different values when applied to
\* the same builder value, hence different commands.
C26_Original ==
    (builder \in MclkStyle /\ cmd = <<>>) =>
        \A p, q \in AllSampleRateNamed :
            ~ /\ p[1] # q[1]
              /\ ENABLED (WriteSampleRate(p) \/ command_WriteSampleRate(p))
              /\ ENABLED ( /\ WriteSampleRate(q) \/ command_WriteSampleRate(q)
                           /\ data' = IF InSampling
                                      THEN SampleRate_bits(Self, p[2]).data
                                      ELSE command_SampleRate_bits(Self, p[2]).data )


\* Some method of writer w can give a value whose field (lenght, shift) differs
\* from the one of the value it was applied to.
Disturbs(w, lenght, shift) ==
    LET changed == Field(data', lenght, shift) # Field(data, lenght, shift)
    IN  \/ \E value \in Values : ENABLED (WriteBits(w, value) /\ changed)
        \/ \E p \in w.methods, b \in {0, 1} : ENABLED (WriteBit(w, p[1], b) /\ changed)
        \/ \E p \in w.named : ENABLED (WriteNamed(w, p[1]) /\ changed)
        \/ \E arm \in w.variant : ENABLED (WriteVariant(w, arm) /\ changed)
        \/ \E volume \in DbSteps(w) : ENABLED (WriteDb(w, volume) /\ changed)

\* C27: in every register builder the bit ranges of two different field writers
\* are disjoint, and no method of one writer changes the bits of the field of
\* another; so for Dacsel and Insel of the analogue audio path.
C27_Original ==
    \A w \in Writers(builder), x \in Writers(builder) :
        w # x =>
            /\ w.shift + w.lenght <= x.shift \/ x.shift + x.lenght <= w.shift
            /\ cmd = <<>> => ~Disturbs(w, x.lenght, x.shift)


\* C28: no command finalized from a register configuration builder has the
\* value of reset().into_command(), its address bits 15..9 being other than those
\* of the reset command.
C28_Original ==
    (builder # "reset" /\ cmd # <<>>) =>
        /\ cmd[1] # Reset_new.data
        /\ cmd[1] \div 2^9 # Reset_new.data \div 2^9


\* C29: on both SPI interfaces the operations done for the reset frame and for
\* each send are, in this order, chip select low, one write of the frame (its
\* two bytes, the high one first, on 8 bit words; one 16 bit word otherwise)
\* and chip select high: every write has a set_low before it and a set_high
\* after it within the same send, and after each send the pin was last set high.
C29_SpiSteps ==
    (interface # <<>> /\ interface[1] \in {"SPI_u8", "SPI_u16"}) =>
        LET frames == << Reset_new.data >> \o calls
            words(v) == IF interface[1] = "SPI_u8"
                        THEN << v \div 2^8, v % 2^8 >> ELSE << v >>
        IN  /\ Len(wire) = 3 * Len(frames)
            /\ \A k \in 1..Len(frames) :
                /\ wire[3 * k - 2].op = "cs.set_low"
                /\ wire[3 * k - 1].op = "spi.write"
                /\ wire[3 * k - 1].words = words(frames[k])
                /\ wire[3 * k].op = "cs.set_high"
            /\ wire[Len(wire)].op = "cs.set_high"

\* A command of value 0b1001_0_0000_0001 (active control, active) was sent after
\* another through the SPI interface of 16 bit words.
C29_Witness ==
    /\ interface # <<>>
    /\ interface[1] = "SPI_u16"
    /\ Len(calls) = 2
    /\ calls[2] = \b1001000000001
    /\ wire[8].words = << \b1001000000001 >>


\* C30: in the raw style builder of sampling.rs a write of USB/NORMAL is
\* possible exactly while neither USB/NORMAL nor SR was written, and a write of
\* BOSR exactly while neither BOSR nor SR was written: neither is written twice
\* in a chain, and after one of the two the other can still be written.
C30_ModeAndBosrOnce ==
    (builder = "sampling_command_builder" /\ cmd = <<>>) =>
        /\ \A m \in UsbNormalMethods :
            ENABLED WriteUsbNormal(m) <=> ("UsbNormal" \notin wrote /\ "Sr" \notin wrote)
        /\ \A m \in BosrMethods :
            ENABLED WriteBosr(m) <=> ("Bosr" \notin wrote /\ "Sr" \notin wrote)
        /\ UsbNormalOffered <=> (t[1] = "Unset" /\ t[3] = "Unset")
        /\ BosrOffered <=> (t[2] = "Unset" /\ t[3] = "Unset")

\* BOSR was set first and USB mode was written after it.
C30_Witness ==
    /\ builder = "sampling_command_builder"
    /\ wrote = {"Bosr", "UsbNormal"}
    /\ LastW = "UsbNormal"
    /\ data % 4 = 3


\* The bit a clock divider writer is to write.
DividerBit(name) == IF name = "Clkidiv2" THEN 6 ELSE 7

\* C31: in every state of the four sampling builders each method of the writers
\* of CLKIDIV2 and CLKODIV2 can be called; the write changes at most bit 6,
\* respectively bit 7, of the value, and leaves the type of the builder, hence
\* the availability of into_command(), usb_normal(), bosr(), sr() and
\* sample_rate(), as it was.
C31_ClockDividers ==
    ((InSampling \/ InCommandSampling) /\ cmd = <<>>) =>
        /\ {w.name : w \in Writers(builder)} = {"Clkidiv2", "Clkodiv2"}
        /\ \A w \in Writers(builder), p \in impl_bitsetters, b \in {0, 1} :
            (p[1] = "bit" \/ b = 0) =>
                /\ ENABLED WriteBit(w, p[1], b)
                /\ ~ENABLED ( /\ WriteBit(w, p[1], b)
                              /\ \/ data' - Bit(data', DividerBit(w.name)) * 2^DividerBit(w.name)
                                       # data - Bit(data, DividerBit(w.name)) * 2^DividerBit(w.name)
                                 \/ t' # t
                                 \/ IntoCommandOffered' # IntoCommandOffered
                                 \/ UsbNormalOffered' # UsbNormalOffered
                                 \/ BosrOffered' # BosrOffered
                                 \/ SrOffered' # SrOffered
                                 \/ SampleRateOffered' # SampleRateOffered )

\* CLKIDIV2 and CLKODIV2 were set on the raw style builder of sampling.rs after
\* USB mode was written and before BOSR was: sr() is not offered yet.
C31_Witness ==
    /\ builder = "sampling_command_builder"
    /\ wrote = {"UsbNormal"}
    /\ data % 2^9 = \b011000001
    /\ ~SrOffered


\* C32: in every state of a raw style builder where sr() is offered, the raw
\* Sr::bits(v) can be called with every v; it writes the low four bits of v to
\* bits 5..2, leaves every other bit and the mode and BOSR of the type as they
\* were, and gives a builder with into_command(), also when v is a code that no
\* named SR writer offers for the mode and the BOSR.
C32_RawSrUnchecked ==
    (builder \in RawStyle /\ cmd = <<>> /\ SrOffered) =>
        \A value \in Values :
            /\ ENABLED (WriteSrBits(value) \/ command_WriteSrBits(value))
            /\ ~ENABLED ( /\ WriteSrBits(value) \/ command_WriteSrBits(value)
                          /\ \/ Field(data', 4, 2) # value % 2^4
                             \/ data' % 2^2 # data % 2^2
                             \/ data' \div 2^6 # data \div 2^6
                             \/ t'[1] # t[1]
                             \/ t'[2] # t[2]
                             \/ ~IntoCommandOffered' )

\* A command finalized in USB mode with BOSR set after Sr::bits wrote 0b0000, a
\* code that the named writers do not offer there.
C32_Witness ==
    /\ builder \in RawStyle
    /\ cmd # <<>>
    /\ last.name = "bits"
    /\ cmd[1] % 2^2 = 3
    /\ Field(cmd[1], 4, 2) = \b0000
    /\ ~\E p \in Sr_named(ModeBosrOf(cmd[1])) : p[2] = \b0000


\* One safe write of USB/NORMAL, BOSR, SR or the sample rate: a call of any of
\* their writers but the unsafe Sr::bits.
SafeWrite ==
    \/ \E m \in UsbNormalMethods : WriteUsbNormal(m) \/ command_WriteUsbNormal(m)
    \/ \E m \in BosrMethods : WriteBosr(m) \/ command_WriteBosr(m)
    \/ \E p \in AllSrNamed : WriteSrNamed(p) \/ command_WriteSrNamed(p)
    \/ \E p \in AllSampleRateNamed : WriteSampleRate(p) \/ command_WriteSampleRate(p)

\* into_command() is available after at most one, two, three safe writes.
FinalizableIn1 == IntoCommandOffered \/ ENABLED (SafeWrite /\ IntoCommandOffered')

FinalizableIn2 == FinalizableIn1 \/ ENABLED (SafeWrite /\ FinalizableIn1')

FinalizableIn3 == FinalizableIn2 \/ ENABLED (SafeWrite /\ FinalizableIn2')

\* C33: from every state of the four sampling builders some sequence of safe
\* writes, of at most three, leads to a state where into_command() is available;
\* one write is enough in the master clock style and in the raw style of
\* command/sampling.rs.
C33_NoDeadEnd ==
    (cmd = <<>> /\ (InSampling \/ InCommandSampling)) =>
        /\ FinalizableIn3
        /\ (builder \in MclkStyle \/ builder = "command::sampling") => FinalizableIn1

\* The raw style builder of sampling.rs in USB mode with BOSR unwritten: sr() is
\* not offered, into_command() is two writes away.
C33_Witness ==
    /\ builder = "sampling_command_builder"
    /\ cmd = <<>>
    /\ wrote = {"UsbNormal"}
    /\ Bit(data, 0) = 1
    /\ ~IntoCommandOffered /\ ~SrOffered
    /\ ~FinalizableIn1
    /\ FinalizableIn2

====
